---- MODULE Spec2Model ----
(***************************************************************************)
(* webpack.config.js: the slug-to-destination mapping computed at module   *)
(* load (const templates = data.map(...)) and its hand-over to             *)
(* NunjucksWebpackPlugin in module.exports.                                *)
(*                                                                         *)
(* A JavaScript string is modelled as the sequence of its characters,      *)
(* each character a one-character TLA+ string.                             *)
(***************************************************************************)
EXTENDS Integers, Sequences, FiniteSets, TLC

VARIABLES data, i, acc, templates, nunjucks, pc, error

vars == <<data, i, acc, templates, nunjucks, pc, error>>

\* ---------------------------------------------------------------- bounds

\* Longest slug of the exhaustive slug set, counted in pieces.
MaxLen == 3

\* Longest descriptor list built from the sample slugs.
MaxData == 3

\* ------------------------------------------------------------ characters

\* \w of a JavaScript regular expression without the u/i flags.
WordChars ==
    { "a", "b", "c", "d", "e", "f", "g", "h", "i", "j", "k", "l", "m",
      "n", "o", "p", "q", "r", "s", "t", "u", "v", "w", "x", "y", "z",
      "A", "B", "C", "D", "E", "F", "G", "H", "I", "J", "K", "L", "M",
      "N", "O", "P", "Q", "R", "S", "T", "U", "V", "W", "X", "Y", "Z",
      "0", "1", "2", "3", "4", "5", "6", "7", "8", "9", "_" }

\* [\w\-\.]
SegChars == WordChars \cup { "-", "." }

\* What '.' of a regular expression without the s flag does not match
\* (U+2028 and U+2029 are line terminators too; LF and CR stand for them).
LineTerminators == { "\n", "\r" }

\* 'index.html'
IndexHtml == << "i", "n", "d", "e", "x", ".", "h", "t", "m", "l" >>

\* 'Incorrect slug: '
IncorrectSlug ==
    << "I", "n", "c", "o", "r", "r", "e", "c", "t", " ", "s", "l", "u", "g", ":", " " >>

\* __dirname: the absolute directory of webpack.config.js, no trailing slash.
DIRNAME == << "/", "w" >>

\* path.join(__dirname, 'dist')
BUILD_DIR == DIRNAME \o << "/", "d", "i", "s", "t" >>

\* ------------------------------------------------------- string helpers

\* String.prototype.endsWith('/')
EndsWithSlash(s) == Len(s) > 0 /\ s[Len(s)] = "/"

\* String.prototype.startsWith('/')
StartsWithSlash(s) == Len(s) > 0 /\ s[1] = "/"

\* String.prototype.indexOf('.') as a 0-based index, -1 when absent.
IndexOfDot(s) ==
    LET K == { k \in 1..Len(s) : s[k] = "." }
    IN  IF K = {} THEN -1
        ELSE (CHOOSE k \in K : \A j \in K : k <= j) - 1

\* ------------------------------------------------------------ the regexes

\* (.*?) can match s: any characters but line terminators.
Group1Matches(s) == \A j \in 1..Len(s) : s[j] \notin LineTerminators

Group2MatchesOptionalWord(s) ==
    LET body == IF EndsWithSlash(s) THEN SubSeq(s, 1, Len(s) - 1) ELSE s
    IN  \A j \in 1..Len(body) : body[j] \in SegChars

\* (\w[\w\-\.]*\/?)$ can match the whole of s.
Group2Matches(s) ==
    /\ Len(s) >= 1
    /\ s[1] \in WordChars
    /\ LET body == IF EndsWithSlash(s) THEN SubSeq(s, 1, Len(s) - 1) ELSE s
       IN  \A j \in 2..Len(body) : body[j] \in SegChars

\* The split points at which /^(.*?)(\w[\w\-\.]*\/?)$/ matches slug.
SplitPoints(slug) ==
    { k \in 0..Len(slug) :
        /\ Group1Matches(SubSeq(slug, 1, k))
        /\ Group2Matches(SubSeq(slug, k + 1, Len(slug))) }

ExecFirstSplitOnly(slug) ==
    IF Group2Matches(slug)
    THEN [matched |-> TRUE, p1 |-> << >>, p2 |-> slug]
    ELSE [matched |-> FALSE, p1 |-> << >>, p2 |-> << >>]

\* /^(.*?)(\w[\w\-\.]*\/?)$/.exec(slug): null, or the groups of the match
\* with the shortest first group (the first group is lazy).
Exec(slug) ==
    LET K == SplitPoints(slug)
    IN  IF K = {}
        THEN [matched |-> FALSE, p1 |-> << >>, p2 |-> << >>]
        ELSE LET k == CHOOSE x \in K : \A y \in K : x <= y
             IN  [matched |-> TRUE,
                  p1 |-> SubSeq(slug, 1, k),
                  p2 |-> SubSeq(slug, k + 1, Len(slug))]

ReplaceExtFromFirstDot(seg) ==
    IF IndexOfDot(seg) = -1 THEN seg ELSE SubSeq(seg, 1, IndexOfDot(seg))

\* seg.replace(/\.\w+$/, ''): the first (leftmost) match is removed, and a
\* match is a dot followed by one or more word characters up to the end.
ReplaceExt(seg) ==
    LET K == { k \in 1..Len(seg) :
                 /\ seg[k] = "."
                 /\ k < Len(seg)
                 /\ \A j \in (k + 1)..Len(seg) : seg[j] \in WordChars }
    IN  IF K = {} THEN seg
        ELSE SubSeq(seg, 1, (CHOOSE k \in K : \A j \in K : k <= j) - 1)

\* value.slug.replace('^/', ''): the pattern is a string, so the first
\* occurrence of the two-character text "^/" is removed, if there is one.
ReplaceCaretSlash(s) ==
    LET K == { k \in 1..(Len(s) - 1) : s[k] = "^" /\ s[k + 1] = "/" }
    IN  IF K = {} THEN s
        ELSE LET k == CHOOSE x \in K : \A y \in K : x <= y
             IN  SubSeq(s, 1, k - 1) \o SubSeq(s, k + 2, Len(s))

\* Lines 37-39: the result of the replace is dropped (strings are
\* immutable), so the slug the rest of the callback reads is unchanged.
StripLeadingSlash(slug) ==
    IF StartsWithSlash(slug)
    THEN LET dropped == ReplaceCaretSlash(slug) IN slug
    ELSE slug

\* ------------------------------------------------- the branches of 50-57

DirBranchNoSeparator(p2) == p2 \o IndexHtml

\* Line 51: the last segment has no dot.
DirBranch(p2) ==
    IF EndsWithSlash(p2) THEN p2 \o IndexHtml ELSE p2 \o << "/" >> \o IndexHtml

FileBranchNoIndex(p2) == ReplaceExt(p2)

\* Line 54: the last segment has a dot and is not 'index.html'.
FileBranch(p2) == ReplaceExt(p2) \o << "/" >> \o IndexHtml

RewriteAlwaysFile(p2) ==
    IF IndexOfDot(p2) = -1 THEN DirBranch(p2) ELSE FileBranch(p2)

\* Lines 50-57: what is appended to path[1].
Rewrite(p2) ==
    IF IndexOfDot(p2) = -1 THEN DirBranch(p2)
    ELSE IF p2 # IndexHtml THEN FileBranch(p2)
    ELSE IndexHtml

\* Line 63: `${BUILD_DIR}/${path[1]}`
ToPath(p1) == BUILD_DIR \o << "/" >> \o p1

\* Line 62: `${__dirname}/${value.template}`
FromPath(template) == DIRNAME \o << "/" >> \o template

\* The map callback, lines 36-66, on one descriptor: the mapping it returns,
\* or the message of the Error it throws.
Resolve(value) ==
    LET slug == StripLeadingSlash(value.slug)
        path == Exec(slug)
    IN  IF path.matched /\ path.p2 # << >>
        THEN [ok      |-> TRUE,
              mapping |-> [from    |-> FromPath(value.template),
                           to      |-> ToPath(path.p1 \o Rewrite(path.p2)),
                           context |-> value.context],
              message |-> << >>]
        ELSE [ok      |-> FALSE,
              mapping |-> [from |-> << >>, to |-> << >>, context |-> ""],
              message |-> IncorrectSlug \o value.slug]

\* ----------------------------------------------------------------- inputs

RECURSIVE Flatten(_)
Flatten(ps) == IF ps = << >> THEN << >> ELSE Head(ps) \o Flatten(Tail(ps))

\* The pieces slugs are built from: one character of each kind the regular
\* expressions tell apart, and the file name the code compares with.
Pieces ==
    { << "a" >>, << "_" >>, << "-" >>, << "." >>, << "/" >>, << "!" >>,
      << "\n" >>, IndexHtml }

\* Every slug of at most MaxLen pieces.
Slugs == { Flatten(ps) : ps \in UNION { [1..n -> Pieces] : n \in 0..MaxLen } }

\* The slugs the documentation of the resolution gives as examples: about,
\* about/, about/index.html, about/team.html, a.b.c, a.b/, a.b-c, /about.
ExampleSlugs ==
    { << "a", "b", "o", "u", "t" >>,
      << "a", "b", "o", "u", "t", "/" >>,
      << "a", "b", "o", "u", "t", "/", "i", "n", "d", "e", "x", ".", "h", "t", "m", "l" >>,
      << "a", "b", "o", "u", "t", "/", "t", "e", "a", "m", ".", "h", "t", "m", "l" >>,
      << "a", ".", "b", ".", "c" >>,
      << "a", ".", "b", "/" >>,
      << "a", ".", "b", "-", "c" >>,
      << "/", "a", "b", "o", "u", "t" >> }

Contexts == { "home", "about" }

Descriptor(s, c) == [slug |-> s, template |-> << "t" >>, context |-> c]

\* Slugs of the descriptor lists longer than one: valid and invalid ones.
SampleSlugs ==
    { << "a" >>, << "a", "/" >>, << "/", "a" >>, << "a", ".", "a" >>,
      << >>, << "/" >>, << ".", ".", "/", "a" >> }

SampleDescriptors == { Descriptor(s, "home") : s \in SampleSlugs }

\* data.yaml as loaded at line 29: one descriptor with any slug, or a list
\* of up to MaxData sample descriptors.
DataLists ==
    { << Descriptor(s, c) >> : s \in Slugs \cup ExampleSlugs, c \in Contexts }
    \cup UNION { [1..n -> SampleDescriptors] : n \in 0..MaxData }

\* ---------------------------------------------------------- state machine

Init ==
    /\ data \in DataLists
    /\ i = 1
    /\ acc = << >>
    /\ templates = << >>
    /\ nunjucks = << >>
    /\ pc = "map"
    /\ error = << >>

MapCallbackSkipsInvalid ==
    /\ pc = "map"
    /\ i <= Len(data)
    /\ LET r == Resolve(data[i])
       IN  acc' = IF r.ok THEN Append(acc, r.mapping) ELSE acc
    /\ i' = i + 1
    /\ UNCHANGED <<data, templates, nunjucks, pc, error>>

\* One call of the callback of data.map (lines 36-66) on data[i].
MapCallback ==
    /\ pc = "map"
    /\ i <= Len(data)
    /\ LET r == Resolve(data[i])
       IN  IF r.ok
           THEN /\ acc' = Append(acc, r.mapping)
                /\ i' = i + 1
                /\ UNCHANGED <<pc, error>>
           ELSE /\ pc' = "thrown"
                /\ error' = r.message
                /\ acc' = << >>
                /\ UNCHANGED i
    /\ UNCHANGED <<data, templates, nunjucks>>

\* data.map returns and line 36 binds templates.
MapReturn ==
    /\ pc = "map"
    /\ i > Len(data)
    /\ templates' = acc
    /\ pc' = "loaded"
    /\ UNCHANGED <<data, i, acc, nunjucks, error>>

\* module.exports (lines 68-224): dotenv may fail (line 75); otherwise the
\* plugin list is built and NunjucksWebpackPlugin receives templates.
ModuleExports ==
    /\ pc = "loaded"
    /\ \E dotenvError \in BOOLEAN :
         IF dotenvError
         THEN /\ pc' = "thrown"
              /\ error' = << "d", "o", "t", "e", "n", "v" >>
              /\ UNCHANGED nunjucks
         ELSE /\ pc' = "configured"
              /\ nunjucks' = Append(nunjucks, templates)
              /\ UNCHANGED error
    /\ UNCHANGED <<data, i, acc, templates>>

Next == MapCallback \/ MapReturn \/ ModuleExports

Spec == Init /\ [][Next]_vars

TypeOK ==
    /\ pc \in { "map", "loaded", "configured", "thrown" }
    /\ i \in 1..(Len(data) + 1)
    /\ Len(acc) <= Len(data)
    /\ Len(nunjucks) <= 1

\* ------------------------------------------------- vocabulary of the claims

\* Descriptor k was mapped: the callback returned acc[k] for data[k].
Succeeded(k) == k \in 1..Len(acc)

\* The callback threw on descriptor k.
Failed(k) == pc = "thrown" /\ i = k /\ k \in 1..Len(data)

Done(k) == Succeeded(k) \/ Failed(k)

SlugOf(k) == data[k].slug

\* The destination of descriptor k, and its part after BUILD_DIR + "/".
Dest(k) == acc[k].to

Rel(k) == SubSeq(Dest(k), Len(BUILD_DIR) + 2, Len(Dest(k)))

Under(p) == BUILD_DIR \o << "/" >> \o p

SlashIndexHtml == << "/" >> \o IndexHtml

HasDot(s) == \E j \in 1..Len(s) : s[j] = "."

LastDot(s) == CHOOSE j \in 1..Len(s) : s[j] = "." /\ \A m \in (j + 1)..Len(s) : s[m] # "."

TrimSep(s) == IF EndsWithSlash(s) THEN SubSeq(s, 1, Len(s) - 1) ELSE s

\* The text after the last separator of p (the whole of p without one).
FinalSegment(p) ==
    LET K == { j \in 1..Len(p) : p[j] = "/" }
    IN  IF K = {} THEN p
        ELSE SubSeq(p, (CHOOSE j \in K : \A m \in K : m <= j) + 1, Len(p))

\* p has a segment that is exactly "..".
HasDotDotSegment(p) ==
    \E j \in 1..(Len(p) - 1) :
        /\ p[j] = "." /\ p[j + 1] = "."
        /\ (j = 1 \/ p[j - 1] = "/")
        /\ (j + 1 = Len(p) \/ p[j + 2] = "/")

\* s has a suffix made of one letter, digit or underscore, then letters,
\* digits, underscores, hyphens or dots, then at most one separator.
HasSegmentSuffix(s) ==
    \E k \in 1..Len(s) :
        /\ s[k] \in WordChars
        /\ \A j \in (k + 1)..Len(s) :
             s[j] \in SegChars \/ (j = Len(s) /\ s[j] = "/")

HasLineTerminator(s) == \E j \in 1..Len(s) : s[j] \in LineTerminators

NothingProduced == acc = << >> /\ templates = << >> /\ nunjucks = << >>

\* ------------------------------------------------------------------ claims

\* C1: a slug whose last segment has no dot resolves to
\* BUILD_DIR/ + parentPrefix + the segment without its trailing separator +
\* /index.html, with or without the trailing separator.
C1_NoDotIsDirectory ==
    \A k \in 1..Len(acc) :
        LET path == Exec(SlugOf(k))
        IN  ~HasDot(path.p2) =>
                Dest(k) = Under(path.p1 \o TrimSep(path.p2) \o SlashIndexHtml)

C1_Witness ==
    \E k \in 1..Len(acc) :
        /\ ~HasDot(Exec(SlugOf(k)).p2)
        /\ EndsWithSlash(SlugOf(k))
        /\ Exec(SlugOf(k)).p1 # << >>

\* C2 as stated: a last segment with a dot, without trailing separator and
\* other than index.html loses the text from its last dot to its end,
\* whatever that text is.
C2_StripsFromLastDot ==
    \A k \in 1..Len(acc) :
        LET path == Exec(SlugOf(k))
            seg  == path.p2
        IN  (HasDot(seg) /\ ~EndsWithSlash(seg) /\ seg # IndexHtml) =>
                Dest(k) = Under(path.p1 \o SubSeq(seg, 1, LastDot(seg) - 1)
                                  \o SlashIndexHtml)

\* The text after the last dot of seg is one or more word characters.
WordExtension(seg) ==
    /\ LastDot(seg) < Len(seg)
    /\ \A j \in (LastDot(seg) + 1)..Len(seg) : seg[j] \in WordChars

\* C2 amended: the final extension is stripped when the text after the last
\* dot is one or more letters, digits or underscores; otherwise nothing is
\* stripped and the whole segment becomes the directory.
C2_StripsWordExtension ==
    \A k \in 1..Len(acc) :
        LET path == Exec(SlugOf(k))
            seg  == path.p2
        IN  (HasDot(seg) /\ ~EndsWithSlash(seg) /\ seg # IndexHtml) =>
                Dest(k) = Under(path.p1
                                \o (IF WordExtension(seg)
                                    THEN SubSeq(seg, 1, LastDot(seg) - 1)
                                    ELSE seg)
                                \o SlashIndexHtml)

C2_Witness ==
    \E k \in 1..Len(acc) :
        LET seg == Exec(SlugOf(k)).p2
        IN  /\ HasDot(seg) /\ ~EndsWithSlash(seg) /\ seg # IndexHtml
            /\ WordExtension(seg)
            /\ HasDot(SubSeq(seg, 1, LastDot(seg) - 1))

\* C3: resolving the relative part of a destination as a slug succeeds and
\* gives the same destination.
C3_Idempotent ==
    \A k \in 1..Len(acc) :
        LET again == Resolve([data[k] EXCEPT !.slug = Rel(k)])
        IN  /\ Dest(k) = Under(Rel(k))
            /\ again.ok
            /\ again.mapping.to = Dest(k)
            /\ Exec(Rel(k)).p2 = IndexHtml

C3_Witness ==
    \E k \in 1..Len(acc) :
        /\ Exec(SlugOf(k)).p2 # IndexHtml
        /\ Resolve([data[k] EXCEPT !.slug = Rel(k)]).ok

\* C4 as stated: the slug "/" resolves to BUILD_DIR/index.html.
C4_RootResolves ==
    \A k \in 1..Len(data) :
        (Done(k) /\ SlugOf(k) = << "/" >>) =>
            (Succeeded(k) /\ Dest(k) = Under(IndexHtml))

\* C4 amended: the slug "/" fails with the error "Incorrect slug: /" and
\* no destination is produced.
C4_RootFails ==
    \A k \in 1..Len(data) :
        (Done(k) /\ SlugOf(k) = << "/" >>) =>
            /\ Failed(k)
            /\ error = IncorrectSlug \o << "/" >>
            /\ NothingProduced

C4_Witness == \E k \in 1..Len(data) : Failed(k) /\ SlugOf(k) = << "/" >>

\* C5 as stated: the callback fails, with a message carrying the slug and
\* without a destination, exactly when the slug has no segment suffix.
C5_FailsIffNoSuffix ==
    \A k \in 1..Len(data) :
        Done(k) =>
            /\ Failed(k) <=> ~HasSegmentSuffix(SlugOf(k))
            /\ Failed(k) => (error = IncorrectSlug \o SlugOf(k) /\ NothingProduced)

\* C5 amended: the callback fails exactly when the slug has no segment
\* suffix or contains a line terminator; the message carries the slug and
\* no destination is produced.
C5_FailsIffNoSuffixOrLineBreak ==
    \A k \in 1..Len(data) :
        Done(k) =>
            /\ Failed(k) <=>
                 (~HasSegmentSuffix(SlugOf(k)) \/ HasLineTerminator(SlugOf(k)))
            /\ Failed(k) => (error = IncorrectSlug \o SlugOf(k) /\ NothingProduced)

C5_Witness ==
    \E k \in 1..Len(data) :
        /\ Failed(k)
        /\ SlugOf(k) = << >>
        /\ error = IncorrectSlug

\* C6: the final segment of every destination contains a dot.
C6_DestinationIsFile ==
    \A k \in 1..Len(acc) : HasDot(FinalSegment(Dest(k)))

C6_Witness ==
    \E k \in 1..Len(acc) :
        /\ HasDot(Exec(SlugOf(k)).p2)
        /\ Exec(SlugOf(k)).p2 # IndexHtml
        /\ FinalSegment(Dest(k)) = IndexHtml

InvalidSlug(s) == ~HasSegmentSuffix(s) \/ HasLineTerminator(s)

FirstInvalid ==
    CHOOSE k \in 1..Len(data) :
        InvalidSlug(SlugOf(k)) /\ \A j \in 1..(k - 1) : ~InvalidSlug(SlugOf(j))

\* C7: with an invalid slug in the list, the mapping never gets past the
\* first invalid descriptor, templates is never bound, the plugin never
\* receives a mapping, and the run that reaches it ends with its error.
C7_FailFast ==
    (\E k \in 1..Len(data) : InvalidSlug(SlugOf(k))) =>
        /\ i <= FirstInvalid
        /\ pc \in { "map", "thrown" }
        /\ templates = << >>
        /\ nunjucks = << >>
        /\ pc = "thrown" =>
             /\ i = FirstInvalid
             /\ acc = << >>
             /\ error = IncorrectSlug \o SlugOf(FirstInvalid)

C7_Witness ==
    /\ pc = "thrown"
    /\ i = 3
    /\ Len(data) = 3
    /\ InvalidSlug(SlugOf(3))

\* C8 as stated: no destination has a ".." segment after BUILD_DIR.
C8_NoParentSegment ==
    \A k \in 1..Len(acc) : ~HasDotDotSegment(Rel(k))

\* C9 as stated: a last segment with a trailing separator, dot or not, gives
\* BUILD_DIR/ + parentPrefix + lastSegment + index.html.
C9_TrailingSeparatorIsDirectory ==
    \A k \in 1..Len(acc) :
        LET path == Exec(SlugOf(k))
        IN  EndsWithSlash(path.p2) =>
                Dest(k) = Under(path.p1 \o path.p2 \o IndexHtml)

\* C10 as stated: "/" + s resolves to the destination of s.
C10_LeadingSeparatorIgnored ==
    \A k \in 1..Len(acc) :
        LET s    == SlugOf(k)
            rest == SubSeq(s, 2, Len(s))
            r    == Resolve([data[k] EXCEPT !.slug = rest])
        IN  (StartsWithSlash(s) /\ ~StartsWithSlash(rest) /\ r.ok) =>
                Dest(k) = r.mapping.to

====
